---- MODULE Spec2Model ----
(***************************************************************************)
(* Model of the schema/type layer of cozo:                                 *)
(*   src/src/data/typing.rs  - Typing, TypingError, Typing::coerce         *)
(*   src/src/data/json.rs    - DataValue <-> JsonValue, Attribute import   *)
(* Every operation of these files is a pure function.  The state machine   *)
(* is a caller that is idle, makes one call with arguments drawn from      *)
(* bounded sets, and holds the call and what it returned.                  *)
(***************************************************************************)
EXTENDS Integers, Sequences, FiniteSets, TLC

VARIABLES call, ret

vars == <<call, ret>>

(***************************************************************************)
(* Bounds of the model.                                                    *)
(***************************************************************************)
\* nesting depth of Nullable(_) / Homogeneous(_) around a leaf type
MaxTypeDepth == 2
\* length of a Value::List, a DataValue::List and a JsonValue::Array
MaxListLen == 2
\* width in bits that stands for the 64 bits of i64 and u64; the f64
\* significand keeps its place below it (MantBits)
IntBits == 4

(***************************************************************************)
(* typing.rs: Typing                                                       *)
(***************************************************************************)
AnyT == [tag |-> "Any"]
BoolT == [tag |-> "Bool"]
IntT == [tag |-> "Int"]
FloatT == [tag |-> "Float"]
TextT == [tag |-> "Text"]
UuidT == [tag |-> "Uuid"]
Nullable(t) == [tag |-> "Nullable", val |-> t]
Homogeneous(t) == [tag |-> "Homogeneous", val |-> t]
UnnamedTuple(ts) == [tag |-> "UnnamedTuple", val |-> ts]
NamedTuple(nts) == [tag |-> "NamedTuple", val |-> nts]

ScalarTypings == {BoolT, IntT, FloatT, TextT, UuidT}

\* the tuple types the model draws; coerce never looks inside them
TupleTypings ==
    { UnnamedTuple(<<>>), UnnamedTuple(<<IntT, Nullable(TextT)>>),
      NamedTuple(<< <<"x", IntT>> >>) }

LeafTypings == {AnyT} \cup ScalarTypings \cup TupleTypings

RECURSIVE TypingsUpTo(_)
TypingsUpTo(d) ==
    IF d = 0 THEN LeafTypings
    ELSE LET sub == TypingsUpTo(d - 1)
         IN  LeafTypings \cup {Nullable(t) : t \in sub}
                         \cup {Homogeneous(t) : t \in sub}

Typings == TypingsUpTo(MaxTypeDepth)

IsNullable(t) == t.tag = "Nullable"
IsTuple(t) == t.tag \in {"UnnamedTuple", "NamedTuple"}

(***************************************************************************)
(* value.rs (declared in the spec, section 3): Value                       *)
(***************************************************************************)
Null == [tag |-> "Null"]
BoolV(b) == [tag |-> "Bool", val |-> b]
IntV(i) == [tag |-> "Int", val |-> i]
FloatV(f) == [tag |-> "Float", val |-> f]
TextV(s) == [tag |-> "Text", val |-> s]
UuidV(u) == [tag |-> "Uuid", val |-> u]
ListV(vs) == [tag |-> "List", val |-> vs]

AtomValues ==
    { Null, BoolV(TRUE), IntV(1), FloatV(1), TextV("x"), UuidV(7) }

SeqsUpTo(S, n) == UNION { [1..k -> S] : k \in 0..n }

FlatLists == {ListV(vs) : vs \in SeqsUpTo(AtomValues, MaxListLen)}

\* scalars, lists of scalars, and lists that hold lists
Values ==
    AtomValues \cup FlatLists
    \cup {ListV(<<l>>) : l \in FlatLists}
    \cup {ListV(<<a, ListV(<<b>>)>>) : a, b \in AtomValues}

\* Value::to_static: the same value with owned contents
to_static(v) == v

(***************************************************************************)
(* typing.rs: TypingError and Result                                       *)
(***************************************************************************)
Ok(v) == [kind |-> "Ok", val |-> v]
Err(e) == [kind |-> "Err", err |-> e]
\* todo!() and unreachable!() abort the call with a panic
Panic == [kind |-> "Panic"]
NotNullViolated(t) == [tag |-> "NotNullViolated", typ |-> t]
TypeMismatch(t, v) == [tag |-> "TypeMismatch", typ |-> t, val |-> v]

(***************************************************************************)
(* typing.rs: Typing::coerce and its helpers                               *)
(***************************************************************************)
coerce_bool(self, v) ==
    IF v.tag = "Bool" THEN Ok(v) ELSE Err(TypeMismatch(self, to_static(v)))

coerce_int(self, v) ==
    IF v.tag = "Int" THEN Ok(v) ELSE Err(TypeMismatch(self, to_static(v)))

\* a widening slip: an Int accepted where Float is declared
coerce_float_widening(self, v) ==
    IF v.tag \in {"Float", "Int"} THEN Ok(v) ELSE Err(TypeMismatch(self, to_static(v)))

coerce_float(self, v) ==
    IF v.tag = "Float" THEN Ok(v) ELSE Err(TypeMismatch(self, to_static(v)))

\* a slip in the error: the mismatch is reported without the offending value
coerce_text_lost_value(self, v) ==
    IF v.tag = "Text" THEN Ok(v) ELSE Err(TypeMismatch(self, Null))

coerce_text(self, v) ==
    IF v.tag = "Text" THEN Ok(v) ELSE Err(TypeMismatch(self, to_static(v)))

coerce_uuid(self, v) ==
    IF v.tag = "Uuid" THEN Ok(v) ELSE Err(TypeMismatch(self, to_static(v)))

\* a slip: a null is let through whatever the declared type
coerce_null_lenient(self) == Ok(Null)

\* lines 78-84: the branch taken when v == Value::Null
coerce_null(self) ==
    IF IsNullable(self) THEN Ok(Null) ELSE Err(NotNullViolated(self))

\* a slip: the deferred tuple arms silently accept the value
coerce_tuple_noop(self, v) == Ok(v)

\* lines 104-109: the tuple arms
coerce_tuple(self, v) == Panic

\* line 102: Homogeneous against a value that is not a List
coerce_not_list(self, v) == Err(TypeMismatch(self, to_static(v)))

RECURSIVE coerce(_, _), collect(_, _, _)

\* a slip: a mismatch under Nullable is reported against the wrapper
coerce_nullable_rewrap(self, v) ==
    LET r == coerce(self.val, v)
    IN  IF r.kind = "Err" /\ r.err.tag = "TypeMismatch"
        THEN Err(TypeMismatch(self, to_static(v)))
        ELSE r

\* lines 86-88: Nullable(t) against a value already known to be non-null
coerce_nullable(self, v) == coerce(self.val, v)

\* a slip: every element is coerced and the last failure is the one reported
collect_last_failure(t, vs, acc) ==
    IF vs = <<>> THEN Ok(acc)
    ELSE LET r == coerce(t, Head(vs))
             rest == collect(t, Tail(vs), IF r.kind = "Ok" THEN Append(acc, r.val) ELSE acc)
         IN  IF r.kind = "Ok" \/ rest.kind # "Ok" THEN rest ELSE r

\* lines 97-101: vs.into_iter().map(|v| t.coerce(v)).collect::<Result<Vec<_>>>()
\* the iterator is lazy: the first element that does not give Ok ends it
collect(t, vs, acc) ==
    IF vs = <<>> THEN Ok(acc)
    ELSE LET r == coerce(t, Head(vs))
         IN  IF r.kind = "Ok" THEN collect(t, Tail(vs), Append(acc, r.val))
             ELSE r

coerce(self, v) ==
    IF self = AnyT THEN Ok(v)
    ELSE IF v = Null THEN coerce_null(self)
    ELSE IF IsNullable(self) THEN coerce_nullable(self, v)
    ELSE CASE self.tag = "Bool" -> coerce_bool(self, v)
           [] self.tag = "Int" -> coerce_int(self, v)
           [] self.tag = "Float" -> coerce_float(self, v)
           [] self.tag = "Text" -> coerce_text(self, v)
           [] self.tag = "Uuid" -> coerce_uuid(self, v)
           [] self.tag = "Homogeneous" ->
                IF v.tag = "List"
                THEN LET r == collect(self.val, v.val, <<>>)
                     IN  IF r.kind = "Ok" THEN Ok(ListV(r.val)) ELSE r
                ELSE coerce_not_list(self, v)
           [] IsTuple(self) -> coerce_tuple(self, v)

(***************************************************************************)
(* Machine numbers, at the model's width                                   *)
(***************************************************************************)
Pow2(n) == 2 ^ n
I64_MIN == -Pow2(IntBits - 1)
I64_MAX == Pow2(IntBits - 1) - 1
U64_MAX == Pow2(IntBits) - 1
\* bits of the f64 significand: fewer than an i64 has (53 against 64)
MantBits == IntBits - 1

\* f64 values: a finite one is counted in halves (h = 3 is 1.5)
Finite(h) == [cls |-> "finite", h |-> h]
NaN == [cls |-> "nan", h |-> 0]
IsFinite(f) == f.cls = "finite"

RECURSIVE Ulp(_, _)
Ulp(n, s) == IF n \div s < Pow2(MantBits) THEN s ELSE Ulp(n, 2 * s)

\* `n as f64` for n >= 0: round to nearest, ties to even
RoundToF64(n) ==
    LET s == Ulp(n, 1)
        q == n \div s
        r == n % s
    IN  IF 2 * r < s THEN q * s
        ELSE IF 2 * r > s THEN (q + 1) * s
        ELSE IF q % 2 = 0 THEN q * s ELSE (q + 1) * s

IntAsF64(n) == Finite(2 * (IF n >= 0 THEN RoundToF64(n) ELSE -RoundToF64(-n)))

Some(x) == [some |-> TRUE, val |-> x]
None == [some |-> FALSE]

(***************************************************************************)
(* serde_json::Value as json.rs uses it                                    *)
(***************************************************************************)
JsonNull == [tag |-> "Null"]
JsonBool(b) == [tag |-> "Bool", val |-> b]
JsonNumber(n) == [tag |-> "Number", val |-> n]
JsonString(s) == [tag |-> "String", val |-> s]
JsonArray(a) == [tag |-> "Array", val |-> a]
JsonObject(m) == [tag |-> "Object", val |-> m]

\* serde_json::Number: PosInt(u64) | NegInt(i64) | Float(f64, finite)
PosInt(u) == [n |-> "PosInt", v |-> u]
NegInt(i) == [n |-> "NegInt", v |-> i]
NFloat(f) == [n |-> "Float", v |-> f]

\* Number::from(i64), Number::from(u64)
NumberFromInt(i) == IF i < 0 THEN NegInt(i) ELSE PosInt(i)

\* json!(f64): a non-finite float has no JSON number and becomes null
JsonFromF64(f) == IF IsFinite(f) THEN JsonNumber(NFloat(f)) ELSE JsonNull

as_i64(n) ==
    CASE n.n = "PosInt" -> IF n.v <= I64_MAX THEN Some(n.v) ELSE None
      [] n.n = "NegInt" -> Some(n.v)
      [] n.n = "Float" -> None

as_u64(n) ==
    CASE n.n = "PosInt" -> Some(n.v)
      [] n.n = "NegInt" -> None
      [] n.n = "Float" -> None

as_f64(n) ==
    CASE n.n = "PosInt" -> Some(IntAsF64(n.v))
      [] n.n = "NegInt" -> Some(IntAsF64(n.v))
      [] n.n = "Float" -> Some(n.v)

\* the keys of the objects of the model, in the map's (sorted) order
KeyOrder == <<"a", "b", "cardinality", "history", "id", "index", "keyword", "type">>

\* Map::into_iter / Map::iter: the entries in key order
Entries(m) ==
    LET ks == SelectSeq(KeyOrder, LAMBDA k : k \in DOMAIN m)
    IN  [i \in 1..Len(ks) |-> <<ks[i], m[ks[i]]>>]

(***************************************************************************)
(* value.rs (declared in the spec, section 3): DataValue                   *)
(***************************************************************************)
DvNull == [tag |-> "Null"]
DvBool(b) == [tag |-> "Bool", val |-> b]
DvInt(i) == [tag |-> "Int", val |-> i]
DvFloat(f) == [tag |-> "Float", val |-> f]
DvString(s) == [tag |-> "String", val |-> s]
DvUuid(u) == [tag |-> "Uuid", val |-> u]
DvBytes(bs) == [tag |-> "Bytes", val |-> bs]
DvList(l) == [tag |-> "List", val |-> l]
DvDescVal(d) == [tag |-> "DescVal", val |-> d]
DvBottom == [tag |-> "Bottom"]
DvEnId(e) == [tag |-> "EnId", val |-> e]
DvKeyword(k) == [tag |-> "Keyword", val |-> k]
DvTimestamp(t) == [tag |-> "Timestamp", val |-> t]

\* Uuid::to_string: the hyphenated lower-case form (uuids 0..9 of the model)
HexDigit == <<"0", "1", "2", "3", "4", "5", "6", "7", "8", "9">>
UuidToString(u) == "00000000-0000-0000-0000-00000000000" \o HexDigit[u + 1]

B64 ==
    << "A","B","C","D","E","F","G","H","I","J","K","L","M","N","O","P",
       "Q","R","S","T","U","V","W","X","Y","Z","a","b","c","d","e","f",
       "g","h","i","j","k","l","m","n","o","p","q","r","s","t","u","v",
       "w","x","y","z","0","1","2","3","4","5","6","7","8","9","+","/" >>
B64Char(n) == B64[n + 1]

\* base64::encode: three bytes to four characters, '=' padding
RECURSIVE Base64Encode(_)
Base64Encode(bs) ==
    IF Len(bs) = 0 THEN ""
    ELSE IF Len(bs) = 1
    THEN B64Char(bs[1] \div 4) \o B64Char((bs[1] % 4) * 16) \o "=="
    ELSE IF Len(bs) = 2
    THEN B64Char(bs[1] \div 4) \o B64Char((bs[1] % 4) * 16 + bs[2] \div 16)
         \o B64Char((bs[2] % 16) * 4) \o "="
    ELSE B64Char(bs[1] \div 4) \o B64Char((bs[1] % 4) * 16 + bs[2] \div 16)
         \o B64Char((bs[2] % 16) * 4 + bs[3] \div 64) \o B64Char(bs[3] % 64)
         \o Base64Encode(SubSeq(bs, 4, Len(bs)))

\* keyword.rs: Keyword::from(&str), Display and is_reserved
KeywordFrom(s) == [kw |-> s]
KeywordToString(k) == k.kw

(***************************************************************************)
(* json.rs: DataValue -> JsonValue                                         *)
(***************************************************************************)
\* a slip: an integral float is written as a JSON integer
ExportFloatAsInt(f) ==
    IF IsFinite(f) /\ f.h % 2 = 0 /\ f.h \div 2 \in I64_MIN..I64_MAX
    THEN JsonNumber(NumberFromInt(f.h \div 2))
    ELSE JsonFromF64(f)

\* line 66
ExportFloat(f) == JsonFromF64(f)

RECURSIVE JsonFromDataValue(_)
JsonFromDataValue(v) ==
    CASE v.tag = "Null" -> JsonNull
      [] v.tag = "Bool" -> JsonBool(v.val)
      [] v.tag = "Int" -> JsonNumber(NumberFromInt(v.val))
      [] v.tag = "Float" -> ExportFloat(v.val)
      [] v.tag = "String" -> JsonString(v.val)
      [] v.tag = "Uuid" -> JsonString(UuidToString(v.val))
      [] v.tag = "Bytes" -> JsonString(Base64Encode(v.val))
      [] v.tag = "List" ->
            JsonArray([i \in 1..Len(v.val) |-> JsonFromDataValue(v.val[i])])
      [] v.tag = "DescVal" -> JsonFromDataValue(v.val)
      [] v.tag = "Bottom" -> JsonNull
      [] v.tag = "EnId" -> JsonNumber(NumberFromInt(v.val))
      [] v.tag = "Keyword" -> JsonString(KeywordToString(v.val))
      [] v.tag = "Timestamp" -> JsonNumber(NumberFromInt(v.val))

(***************************************************************************)
(* json.rs: JsonValue -> DataValue, borrowed and owned                     *)
(***************************************************************************)
\* a slip: the integer test is made on the unsigned reading
ImportNumberUnsigned(n) ==
    IF as_u64(n).some THEN DvInt(as_u64(n).val)
    ELSE IF as_f64(n).some THEN DvFloat(as_f64(n).val)
    ELSE DvString("number")

\* lines 15-21 and 40-46
ImportNumber(n) ==
    IF as_i64(n).some THEN DvInt(as_i64(n).val)
    ELSE IF as_f64(n).some THEN DvFloat(as_f64(n).val)
    ELSE DvString("number")

RECURSIVE DataValueFromJsonRef(_), DataValueFromJson(_)

\* impl From<&JsonValue> for DataValue
DataValueFromJsonRef(v) ==
    CASE v.tag = "Null" -> DvNull
      [] v.tag = "Bool" -> DvBool(v.val)
      [] v.tag = "Number" -> ImportNumber(v.val)
      [] v.tag = "String" -> DvString(v.val)
      [] v.tag = "Array" ->
            DvList([i \in 1..Len(v.val) |-> DataValueFromJsonRef(v.val[i])])
      [] v.tag = "Object" ->
            LET es == Entries(v.val)
            IN  DvList([i \in 1..Len(es) |->
                    DvList(<<DvString(es[i][1]), DataValueFromJsonRef(es[i][2])>>)])

\* impl From<JsonValue> for DataValue: the array arm iterates by reference
DataValueFromJson(v) ==
    CASE v.tag = "Null" -> DvNull
      [] v.tag = "Bool" -> DvBool(v.val)
      [] v.tag = "Number" -> ImportNumber(v.val)
      [] v.tag = "String" -> DvString(v.val)
      [] v.tag = "Array" ->
            DvList([i \in 1..Len(v.val) |-> DataValueFromJsonRef(v.val[i])])
      [] v.tag = "Object" ->
            LET es == Entries(v.val)
            IN  DvList([i \in 1..Len(es) |->
                    DvList(<<DvString(es[i][1]), DataValueFromJson(es[i][2])>>)])

(***************************************************************************)
(* The values the caller draws                                             *)
(***************************************************************************)
Floats == {Finite(2), Finite(3), Finite(-5), NaN}

AtomDataValues ==
    {DvNull, DvBool(TRUE), DvString("x"), DvUuid(7), DvBytes(<<>>),
     DvBytes(<<1, 255>>), DvBottom, DvKeyword(KeywordFrom("name")), DvTimestamp(0)}
    \cup {DvInt(i) : i \in {I64_MIN, -1, 0, I64_MAX}}
    \cup {DvFloat(f) : f \in Floats}
    \cup {DvEnId(e) : e \in {0, I64_MAX, I64_MAX + 1, U64_MAX}}

DataValues ==
    LET lists == {DvList(l) : l \in SeqsUpTo(AtomDataValues, MaxListLen)}
    IN  AtomDataValues \cup lists
        \cup {DvDescVal(d) : d \in AtomDataValues}
        \cup {DvDescVal(DvList(<<d>>)) : d \in AtomDataValues}
        \cup {DvList(<<DvList(<<d>>)>>) : d \in AtomDataValues}

JsonNumbers ==
    {PosInt(u) : u \in 0..U64_MAX} \cup {NegInt(i) : i \in I64_MIN..-1}
    \cup {NFloat(f) : f \in {g \in Floats : IsFinite(g)}}

AtomJsonValues ==
    {JsonNull, JsonBool(FALSE), JsonString("x")} \cup {JsonNumber(n) : n \in JsonNumbers}

JsonValues ==
    AtomJsonValues
    \cup {JsonArray(a) : a \in SeqsUpTo(AtomJsonValues, MaxListLen)}
    \cup {JsonObject(m) : m \in UNION {[D -> AtomJsonValues] : D \in SUBSET {"a", "b"}}}
    \cup {JsonArray(<<JsonObject([a |-> j])>>) : j \in AtomJsonValues}
    \cup {JsonObject([b |-> JsonArray(<<j>>)]) : j \in AtomJsonValues}
    \cup {JsonObject([b |-> JsonObject([a |-> j])]) : j \in AtomJsonValues}

(***************************************************************************)
(* attr.rs, id.rs, keyword.rs: what json.rs uses of them                   *)
(***************************************************************************)
AttrId(u) == [attr_id |-> u]

ReservedKeywords == {"_id"}
is_reserved(k) == k.kw \in ReservedKeywords

\* anyhow!(fmt, arg): the message is the format with the argument displayed
Error(fmt, arg) == [fmt |-> fmt, arg |-> arg]

\* AttributeCardinality::try_from(&str)
AttributeCardinalityFrom(s) ==
    CASE s = "one" -> Ok("One")
      [] s = "many" -> Ok("Many")
      [] OTHER -> Err(Error("unknown cardinality {}", JsonString(s)))

\* AttributeTyping::try_from(&str)
AttributeTypingFrom(s) ==
    CASE s = "Int" -> Ok(IntT)
      [] s = "?[Text]" -> Ok(Nullable(Homogeneous(TextT)))
      [] OTHER -> Err(Error("unknown type {}", JsonString(s)))

\* AttributeIndex::try_from(&str)
AttributeIndexFrom(s) ==
    CASE s = "none" -> Ok("None")
      [] s = "indexed" -> Ok("Indexed")
      [] s = "unique" -> Ok("Unique")
      [] OTHER -> Err(Error("unknown attribute indexing {}", JsonString(s)))

(***************************************************************************)
(* json.rs: the messages of the conversions                                *)
(***************************************************************************)
MsgNotObject == "expect object in attribute definition, got {}"
MsgNoKeyword == "expect field 'keyword' in attribute definition, got {}"
MsgKeywordShape == "failed to convert {} to a keyword"
MsgReserved == "cannot use reserved keyword {}"
MsgNoCardinality == "expect field 'cardinality' in {}"
MsgCardinalityShape == "expect field 'cardinality' to be a string, got {}"
MsgNoType == "expect field 'type' in {}"
MsgTypeShape == "expect field 'type' in {} to be a string"
MsgIdShape == "cannot convert {} to attr id"
MsgIndexShape == "cannot convert {} to attribute indexing"
MsgHistoryShape == "cannot convert {} to attribute with history flag"

(***************************************************************************)
(* json.rs: TryFrom<&JsonValue> for AttrId, Keyword, Attribute             *)
(***************************************************************************)
\* Value::as_u64, as_str, as_bool
json_as_u64(v) == IF v.tag = "Number" THEN as_u64(v.val) ELSE None
json_as_str(v) == IF v.tag = "String" THEN Some(v.val) ELSE None
json_as_bool(v) == IF v.tag = "Bool" THEN Some(v.val) ELSE None

AttrIdFromJson(value) ==
    LET v == json_as_u64(value)
    IN  IF v.some THEN Ok(AttrId(v.val)) ELSE Err(Error(MsgIdShape, value))

KeywordFromJson(value) ==
    LET s == json_as_str(value)
    IN  IF s.some THEN Ok(KeywordFrom(s.val)) ELSE Err(Error(MsgKeywordShape, value))

\* lines 99-102
IdField(map) ==
    IF "id" \notin DOMAIN map THEN Ok(AttrId(0)) ELSE AttrIdFromJson(map["id"])

\* lines 103-114
KeywordField(value, map) ==
    IF "keyword" \notin DOMAIN map THEN Err(Error(MsgNoKeyword, value))
    ELSE LET keyword == KeywordFromJson(map["keyword"])
         IN  IF keyword.kind = "Err" THEN keyword
             ELSE IF is_reserved(keyword.val)
             THEN Err(Error(MsgReserved, JsonString(KeywordToString(keyword.val))))
             ELSE keyword

\* a slip: the wrong-shape message shows the field's value, not the definition
CardinalityFieldShowsField(value, map) ==
    IF "cardinality" \notin DOMAIN map THEN Err(Error(MsgNoCardinality, value))
    ELSE LET s == json_as_str(map["cardinality"])
         IN  IF ~s.some THEN Err(Error(MsgCardinalityShape, map["cardinality"]))
             ELSE AttributeCardinalityFrom(s.val)

\* lines 115-120
CardinalityField(value, map) ==
    IF "cardinality" \notin DOMAIN map THEN Err(Error(MsgNoCardinality, value))
    ELSE LET s == json_as_str(map["cardinality"])
         IN  IF ~s.some THEN Err(Error(MsgCardinalityShape, value))
             ELSE AttributeCardinalityFrom(s.val)

\* lines 121-126
TypeField(value, map) ==
    IF "type" \notin DOMAIN map THEN Err(Error(MsgNoType, value))
    ELSE LET s == json_as_str(map["type"])
         IN  IF ~s.some THEN Err(Error(MsgTypeShape, value))
             ELSE AttributeTypingFrom(s.val)

\* lines 128-136
IndexField(map) ==
    IF "index" \notin DOMAIN map THEN Ok("None")
    ELSE LET v == map["index"]
         IN  IF v = JsonBool(TRUE) THEN Ok("Indexed")
             ELSE IF v = JsonBool(FALSE) THEN Ok("None")
             ELSE LET s == json_as_str(v)
                  IN  IF ~s.some THEN Err(Error(MsgIndexShape, v))
                      ELSE AttributeIndexFrom(s.val)

\* a slip: a history that is not a boolean falls back to the default
HistoryFieldLenient(map) ==
    IF "history" \notin DOMAIN map THEN Ok(TRUE)
    ELSE LET b == json_as_bool(map["history"])
         IN  IF b.some THEN Ok(b.val) ELSE Ok(TRUE)

\* lines 138-143
HistoryField(map) ==
    IF "history" \notin DOMAIN map THEN Ok(TRUE)
    ELSE LET b == json_as_bool(map["history"])
         IN  IF b.some THEN Ok(b.val) ELSE Err(Error(MsgHistoryShape, map["history"]))

\* lines 95-153: each `?` returns the first error met, in this order
AttributeFromJson(value) ==
    IF value.tag # "Object" THEN Err(Error(MsgNotObject, value))
    ELSE
    LET map == value.val
        id == IdField(map)
        keyword == KeywordField(value, map)
        cardinality == CardinalityField(value, map)
        val_type == TypeField(value, map)
        indexing == IndexField(map)
        with_history == HistoryField(map)
    IN  IF id.kind = "Err" THEN id
        ELSE IF keyword.kind = "Err" THEN keyword
        ELSE IF cardinality.kind = "Err" THEN cardinality
        ELSE IF val_type.kind = "Err" THEN val_type
        ELSE IF indexing.kind = "Err" THEN indexing
        ELSE IF with_history.kind = "Err" THEN with_history
        ELSE Ok([id |-> id.val, keyword |-> keyword.val,
                 cardinality |-> cardinality.val, val_type |-> val_type.val,
                 indexing |-> indexing.val, with_history |-> with_history.val])

(***************************************************************************)
(* The attribute definitions the caller draws                              *)
(***************************************************************************)
Absent == [tag |-> "Absent"]
AttrKeys == {"id", "keyword", "cardinality", "type", "index", "history"}

FieldChoices ==
    [ id |-> {Absent, JsonNumber(PosInt(0)), JsonNumber(PosInt(U64_MAX)),
              JsonNumber(NegInt(-1)), JsonNumber(NFloat(Finite(2))),
              JsonNull, JsonString("1")},
      keyword |-> {Absent, JsonString("name"), JsonString("_id"),
                   JsonNumber(PosInt(5)), JsonNull},
      cardinality |-> {Absent, JsonString("one"), JsonString("many"),
                       JsonString("several"), JsonNull},
      type |-> {Absent, JsonString("Int"), JsonString("Intt"), JsonBool(TRUE)},
      index |-> {Absent, JsonBool(TRUE), JsonBool(FALSE), JsonString("indexed"),
                 JsonString("unique"), JsonString("sometimes"), JsonNull,
                 JsonNumber(PosInt(1))},
      history |-> {Absent, JsonBool(TRUE), JsonBool(FALSE), JsonNull,
                   JsonString("true")} ]

Definition(f) ==
    JsonObject([k \in {x \in AttrKeys : f[x] # Absent} |-> f[k]])

Definitions ==
    {Definition(f) : f \in [id : FieldChoices.id, keyword : FieldChoices.keyword,
                            cardinality : FieldChoices.cardinality,
                            type : FieldChoices.type, index : FieldChoices.index,
                            history : FieldChoices.history]}
    \cup {JsonNull, JsonString("name"), JsonArray(<<JsonString("name")>>)}

(***************************************************************************)
(* The caller                                                              *)
(***************************************************************************)
Idle == [op |-> "idle"]
NoRet == [kind |-> "None"]

Init == call = Idle /\ ret = NoRet

Coerce ==
    /\ call = Idle
    /\ \E t \in Typings, v \in Values :
          /\ call' = [op |-> "coerce", typ |-> t, val |-> v]
          /\ ret' = coerce(t, v)

\* DataValue -> JsonValue
Export ==
    /\ call = Idle
    /\ \E d \in DataValues :
          /\ call' = [op |-> "export", dv |-> d]
          /\ ret' = JsonFromDataValue(d)

\* the exported JsonValue is converted back (owned conversion)
Reimport ==
    /\ call.op = "export"
    /\ call' = [op |-> "reimport", dv |-> call.dv, json |-> ret]
    /\ ret' = DataValueFromJson(ret)

\* JsonValue -> DataValue through the borrowed conversion
ImportRef ==
    /\ call = Idle
    /\ \E j \in JsonValues :
          /\ call' = [op |-> "import_ref", json |-> j]
          /\ ret' = DataValueFromJsonRef(j)

\* the same JsonValue is then consumed by the owned conversion
ImportOwned ==
    /\ call.op = "import_ref"
    /\ call' = [op |-> "import_owned", json |-> call.json, borrowed |-> ret]
    /\ ret' = DataValueFromJson(call.json)

\* an external attribute definition is validated into an Attribute
ValidateAttribute ==
    /\ call = Idle
    /\ \E d \in Definitions :
          /\ call' = [op |-> "attribute", def |-> d]
          /\ ret' = AttributeFromJson(d)

Next ==
    \/ Coerce
    \/ Export
    \/ Reimport
    \/ ImportRef
    \/ ImportOwned
    \/ ValidateAttribute

Spec == Init /\ [][Next]_vars

(***************************************************************************)
(* Typing::coerce: the claims                                              *)
(***************************************************************************)
Coerced == call.op = "coerce"
VariantMatches(t, v) == v.tag = t.tag

\* C1 as stated: for every declared type T that is not Nullable (Any
\* included), coerce(T, Null) fails as NotNullViolated(T).
C1_AsStated ==
    (Coerced /\ ~IsNullable(call.typ) /\ call.val = Null)
        => ret = Err(NotNullViolated(call.typ))

\* C1 amended: for every declared type T that is neither Nullable nor Any,
\* coerce(T, Null) fails as NotNullViolated(T); coerce(Any, Null) is Ok(Null).
C1_NullAgainstNonNullable ==
    (Coerced /\ call.val = Null /\ ~IsNullable(call.typ))
        => ret = (IF call.typ = AnyT THEN Ok(Null)
                  ELSE Err(NotNullViolated(call.typ)))

C1_Witness ==
    /\ Coerced /\ call.val = Null /\ call.typ = Homogeneous(IntT)
    /\ ret = Err(NotNullViolated(Homogeneous(IntT)))

\* C2 as stated: for every scalar declared type T and every value v (Null
\* included) whose variant differs from T, coerce(T, v) fails as
\* TypeMismatch(T, v).
C2_AsStated ==
    (Coerced /\ call.typ \in ScalarTypings /\ ~VariantMatches(call.typ, call.val))
        => ret = Err(TypeMismatch(call.typ, call.val))

\* C2 amended: for every scalar declared type T and every non-null value v
\* whose variant differs from T, coerce(T, v) fails as TypeMismatch(T, v);
\* for v = Null it fails as NotNullViolated(T).
C2_ScalarMismatch ==
    (Coerced /\ call.typ \in ScalarTypings /\ ~VariantMatches(call.typ, call.val))
        => ret = (IF call.val = Null THEN Err(NotNullViolated(call.typ))
                  ELSE Err(TypeMismatch(call.typ, call.val)))

C2_Witness ==
    /\ Coerced /\ call.typ = TextT /\ call.val = ListV(<<TextV("x")>>)
    /\ ret = Err(TypeMismatch(TextT, ListV(<<TextV("x")>>)))

\* C3 as stated: every coerce call whose declared type is UnnamedTuple or
\* NamedTuple ends in the internal failure, for every value.
C3_AsStated ==
    (Coerced /\ IsTuple(call.typ)) => ret = Panic

\* C3 amended: a coerce call whose declared type is UnnamedTuple or
\* NamedTuple ends in the internal failure for every non-null value; for
\* Null it returns the typed error NotNullViolated(T).
C3_TupleDeferred ==
    (Coerced /\ IsTuple(call.typ))
        => ret = (IF call.val = Null THEN Err(NotNullViolated(call.typ))
                  ELSE Panic)

C3_Witness ==
    /\ Coerced /\ call.typ = NamedTuple(<< <<"x", IntT>> >>)
    /\ call.val = IntV(1) /\ ret = Panic

\* C4: for every scalar declared type T and value v of exactly T's variant,
\* coerce(T, v) = Ok(v); an Int is never accepted as Float nor a Float as Int.
C4_ScalarMatch ==
    Coerced =>
        /\ (call.typ \in ScalarTypings /\ VariantMatches(call.typ, call.val))
              => ret = Ok(call.val)
        /\ (call.typ = FloatT /\ call.val.tag = "Int") => ret.kind # "Ok"
        /\ (call.typ = IntT /\ call.val.tag = "Float") => ret.kind # "Ok"

C4_Witness ==
    Coerced /\ call.typ = FloatT /\ call.val = FloatV(1) /\ ret = Ok(FloatV(1))

\* C5: for every inner type T and non-null value v, coerce(Nullable(T), v)
\* is what coerce(T, v) is, an error never citing a Nullable type; and
\* coerce(Nullable(T), Null) = Ok(Null), nested Nullable included.
C5_NullableTransparent ==
    (Coerced /\ IsNullable(call.typ)) =>
        IF call.val = Null THEN ret = Ok(Null)
        ELSE /\ ret = coerce(call.typ.val, call.val)
             /\ ret.kind = "Err" => ~IsNullable(ret.err.typ)

C5_Witness ==
    /\ Coerced /\ call.typ = Nullable(Nullable(IntT)) /\ call.val = TextV("x")
    /\ ret = Err(TypeMismatch(IntT, TextV("x")))

\* the results of coercing each element of a list on its own
ElemResults(e, vs) == [i \in 1..Len(vs) |-> coerce(e, vs[i])]
Failing(rs) == {i \in 1..Len(rs) : rs[i].kind # "Ok"}
Lowest(S) == CHOOSE i \in S : \A j \in S : i <= j

\* C6: for every element type E and non-null value v, coerce(Homogeneous(E), v)
\* is TypeMismatch(Homogeneous(E), v) when v is not a List; when v is a List
\* it is Ok of the list of the coerced elements, same length and order, if
\* every element coerces, and otherwise exactly what the lowest-index failing
\* element gave.
C6_Homogeneous ==
    (Coerced /\ call.typ.tag = "Homogeneous" /\ call.val # Null) =>
        IF call.val.tag # "List"
        THEN ret = Err(TypeMismatch(call.typ, call.val))
        ELSE LET rs == ElemResults(call.typ.val, call.val.val)
             IN  IF Failing(rs) = {}
                 THEN /\ ret.kind = "Ok" /\ ret.val.tag = "List"
                      /\ Len(ret.val.val) = Len(call.val.val)
                      /\ \A i \in 1..Len(rs) : ret.val.val[i] = rs[i].val
                 ELSE ret = rs[Lowest(Failing(rs))]

C6_Witness ==
    /\ Coerced /\ call.typ = Homogeneous(IntT)
    /\ call.val = ListV(<<TextV("x"), Null>>)
    /\ ret = Err(TypeMismatch(IntT, TextV("x")))

(***************************************************************************)
(* DataValue <-> JsonValue: the claims                                     *)
(***************************************************************************)
Reimported == call.op = "reimport"
Imported == call.op \in {"import_ref", "import_owned"}

\* a DataValue built only of Null, Bool, Int, finite Float, String and List
RECURSIVE Plain(_)
Plain(d) ==
    CASE d.tag \in {"Null", "Bool", "Int", "String"} -> TRUE
      [] d.tag = "Float" -> IsFinite(d.val)
      [] d.tag = "List" -> \A i \in 1..Len(d.val) : Plain(d.val[i])
      [] OTHER -> FALSE

\* C7 as stated: for every DataValue d of any variant, importing the JSON
\* export of d gives back d.
C7_AsStated == Reimported => ret = call.dv

\* C7 amended: importing the JSON export of d gives back d exactly when d is
\* built only of Null, Bool, Int, finite Float, String and List values; a
\* Uuid, Bytes or Keyword comes back as a String, Bottom and a non-finite
\* Float as Null, a Timestamp as an Int, an EnId as an Int or (above
\* i64::MAX) a Float, and a DescVal as what its wrapped value comes back as.
C7_RoundTrip ==
    Reimported =>
        /\ (ret = call.dv) <=> Plain(call.dv)
        /\ call.dv.tag \in {"Uuid", "Bytes", "Keyword"} => ret.tag = "String"
        /\ call.dv.tag = "Bottom" => ret = DvNull
        /\ (call.dv.tag = "Float" /\ ~IsFinite(call.dv.val)) => ret = DvNull
        /\ call.dv.tag = "Timestamp" => ret = DvInt(call.dv.val)
        /\ call.dv.tag = "EnId" =>
              ret = (IF call.dv.val <= I64_MAX THEN DvInt(call.dv.val)
                     ELSE DvFloat(IntAsF64(call.dv.val)))
        /\ call.dv.tag = "DescVal" =>
              ret = DataValueFromJson(JsonFromDataValue(call.dv.val))

C7_Witness ==
    /\ Reimported /\ call.dv = DvList(<<DvFloat(Finite(2)), DvInt(I64_MIN)>>)
    /\ ret = call.dv

IsInteger(n) == n.n \in {"PosInt", "NegInt"}

\* C10 as stated: every integral JSON number (signed or unsigned 64-bit)
\* imports as Int and every non-integral one as Float; the owned and the
\* borrowed conversion agree on every JSON value.
C10_AsStated ==
    /\ (Imported /\ call.json.tag = "Number") =>
          /\ IsInteger(call.json.val) => ret.tag = "Int"
          /\ (~IsInteger(call.json.val) /\ call.json.val.v.h % 2 # 0)
                => ret.tag = "Float"
    /\ call.op = "import_owned" => ret = call.borrowed

\* C10 amended: a JSON integer within the signed 64-bit range imports as
\* Int of that value; an unsigned integer above i64::MAX imports as Float
\* (the nearest f64); a float-typed number imports as Float of that value,
\* integral or not; no number imports as String; the owned and the borrowed
\* conversion agree on every JSON value.
C10_ImportNumber ==
    /\ (Imported /\ call.json.tag = "Number") =>
          LET n == call.json.val
          IN  /\ (IsInteger(n) /\ n.v <= I64_MAX) => ret = DvInt(n.v)
              /\ (IsInteger(n) /\ n.v > I64_MAX) =>
                    /\ ret.tag = "Float" /\ IsFinite(ret.val)
                    /\ ret.val.h % 2 = 0
                    /\ \A m \in 0..U64_MAX :
                          (IntAsF64(m) = Finite(2 * m)) =>
                             LET x == ret.val.h \div 2
                                 dx == IF x >= n.v THEN x - n.v ELSE n.v - x
                                 dm == IF m >= n.v THEN m - n.v ELSE n.v - m
                             IN  dx <= dm
              /\ ~IsInteger(n) => ret = DvFloat(n.v)
              /\ ret.tag # "String"
    /\ call.op = "import_owned" => ret = call.borrowed

C10_Witness ==
    /\ call.op = "import_owned" /\ call.json = JsonNumber(PosInt(U64_MAX))
    /\ ret = DvFloat(Finite(2 * (U64_MAX + 1))) /\ ret = call.borrowed

(***************************************************************************)
(* Attribute validation: the claims                                        *)
(***************************************************************************)
Validated == call.op = "attribute"
Failed == ret.kind = "Err"
FailsWith(msg) == Failed /\ ret.err.fmt = msg
Has(k) == call.def.tag = "Object" /\ k \in DOMAIN call.def.val
Field(k) == call.def.val[k]

\* the messages for a missing required field and for a field of the wrong shape
MissingMsgs == {MsgNoKeyword, MsgNoCardinality, MsgNoType}
ShapeMsgs ==
    {MsgNotObject, MsgIdShape, MsgKeywordShape, MsgCardinalityShape,
     MsgTypeShape, MsgIndexShape, MsgHistoryShape}

\* the field whose name a message's text contains ("" for none)
FieldNamedIn(msg) ==
    CASE msg \in {MsgNoKeyword, MsgKeywordShape} -> "keyword"
      [] msg \in {MsgNoCardinality, MsgCardinalityShape} -> "cardinality"
      [] msg \in {MsgNoType, MsgTypeShape} -> "type"
      [] msg = MsgIdShape -> "id"
      [] msg = MsgIndexShape -> "index"
      [] msg = MsgHistoryShape -> "history"
      [] OTHER -> ""

\* the messages that display the whole definition / only one field's value
WholeDefinitionMsgs ==
    MissingMsgs \cup {MsgNotObject, MsgCardinalityShape, MsgTypeShape}
FieldValueMsgs == {MsgIdShape, MsgKeywordShape, MsgIndexShape, MsgHistoryShape}

\* the fields in the order the validation reads them
IdGood == ~Has("id") \/ json_as_u64(Field("id")).some
KeywordGood ==
    /\ Has("keyword") /\ Field("keyword").tag = "String"
    /\ Field("keyword").val \notin ReservedKeywords
CardinalityGood ==
    Has("cardinality") /\ Field("cardinality") \in {JsonString("one"), JsonString("many")}
TypeGood == Has("type") /\ Field("type") = JsonString("Int")
IndexGood ==
    ~Has("index") \/ Field("index").tag = "Bool"
    \/ Field("index") \in {JsonString("indexed"), JsonString("unique")}

\* C8 as stated: every missing-required-field and wrong-field-shape error
\* of Attribute validation names both the field concerned and the full
\* received definition.
C8_AsStated ==
    (Validated /\ Failed /\ ret.err.fmt \in MissingMsgs \cup ShapeMsgs) =>
        /\ ret.err.arg = call.def
        /\ ret.err.fmt # MsgNotObject => FieldNamedIn(ret.err.fmt) # ""

\* C8 amended: the errors for a definition that is not an object, for a
\* missing keyword, cardinality or type and for a cardinality or type that
\* is not a string show the full received definition and (but for the
\* not-an-object error) name the field; the errors for an id that is not an
\* unsigned integer, a keyword that is not a string, an index that is
\* neither boolean nor string and a history that is not boolean name the
\* field and show only that field's value, not the definition.
C8_ErrorsNameFieldAndInput ==
    Validated =>
        /\ (Failed /\ ret.err.fmt \in WholeDefinitionMsgs) => ret.err.arg = call.def
        /\ (Failed /\ ret.err.fmt \in FieldValueMsgs) =>
              /\ ret.err.arg = Field(FieldNamedIn(ret.err.fmt))
              /\ ret.err.arg # call.def
        /\ (Failed /\ ret.err.fmt \in (MissingMsgs \cup ShapeMsgs) \ {MsgNotObject})
              => FieldNamedIn(ret.err.fmt) # ""
        /\ call.def.tag # "Object" => ret = Err(Error(MsgNotObject, call.def))
        /\ call.def.tag = "Object" =>
              /\ ~IdGood => FailsWith(MsgIdShape)
              /\ (IdGood /\ ~Has("keyword")) => FailsWith(MsgNoKeyword)
              /\ (IdGood /\ Has("keyword") /\ Field("keyword").tag # "String")
                    => FailsWith(MsgKeywordShape)
              /\ (IdGood /\ KeywordGood /\ ~Has("cardinality"))
                    => FailsWith(MsgNoCardinality)
              /\ (IdGood /\ KeywordGood /\ Has("cardinality")
                    /\ Field("cardinality").tag # "String")
                    => FailsWith(MsgCardinalityShape)
              /\ (IdGood /\ KeywordGood /\ CardinalityGood /\ ~Has("type"))
                    => FailsWith(MsgNoType)
              /\ (IdGood /\ KeywordGood /\ CardinalityGood /\ Has("type")
                    /\ Field("type").tag # "String")
                    => FailsWith(MsgTypeShape)
              /\ (IdGood /\ KeywordGood /\ CardinalityGood /\ TypeGood
                    /\ Has("index") /\ Field("index").tag \notin {"Bool", "String"})
                    => FailsWith(MsgIndexShape)
              /\ (IdGood /\ KeywordGood /\ CardinalityGood /\ TypeGood /\ IndexGood
                    /\ Has("history") /\ Field("history").tag # "Bool")
                    => FailsWith(MsgHistoryShape)

C8_Witness ==
    /\ Validated /\ Has("id") /\ Has("keyword") /\ Has("history")
    /\ Has("cardinality") /\ Field("cardinality") = JsonNull
    /\ ret = Err(Error(MsgCardinalityShape, call.def))

\* C9: on every definition that validates, an absent id gives AttrId(0), an
\* absent index gives indexing None, an absent history gives with_history =
\* true and the keyword is not reserved; a present field that is malformed
\* or unrecognised (a null id, index or history among them), a missing
\* keyword and a reserved keyword make validation fail.
C9_DefaultsOnlyWhenAbsent ==
    (Validated /\ call.def.tag = "Object") =>
        /\ ~Failed =>
              /\ ~Has("id") => ret.val.id = AttrId(0)
              /\ ~Has("index") => ret.val.indexing = "None"
              /\ ~Has("history") => ret.val.with_history = TRUE
              /\ ~is_reserved(ret.val.keyword)
        /\ (Has("id") /\ ~json_as_u64(Field("id")).some) => Failed
        /\ (Has("index") /\ Field("index").tag # "Bool"
              /\ Field("index") \notin {JsonString("indexed"), JsonString("unique")})
              => Failed
        /\ (Has("history") /\ Field("history").tag # "Bool") => Failed
        /\ (Has("cardinality")
              /\ Field("cardinality") \notin {JsonString("one"), JsonString("many")})
              => Failed
        /\ ~Has("keyword") => Failed
        /\ (Has("keyword") /\ Field("keyword") = JsonString("_id")) => Failed

C9_Witness ==
    /\ Validated /\ ~Failed
    /\ ~Has("id") /\ ~Has("index") /\ ~Has("history")
    /\ ret.val.id = AttrId(0) /\ ret.val.indexing = "None"
    /\ ret.val.with_history = TRUE

====
